---- MODULE Spec2Model ----
(***************************************************************************)
(* Job orchestrator: the jobs table and the operations that read and write *)
(* it (LeasingService, JobService, JobRepository, core/leasing.py).        *)
(*                                                                         *)
(* Every operation runs in its own database transaction on its own         *)
(* session (READ COMMITTED).  An operation that fetches a row with         *)
(* session.get / a plain SELECT and later flushes is modelled in two       *)
(* steps: the fetch, which stores the loaded row in the caller's session,  *)
(* and the finish, which decides on the loaded row, flushes and commits.   *)
(* Other transactions may commit between the two.  A flush is an           *)
(* UPDATE ... WHERE id = ? that writes only the columns whose value        *)
(* differs from the loaded one (SQLAlchemy unit of work).  Only            *)
(* find_next_runnable_job takes a row lock (FOR UPDATE SKIP LOCKED); it is *)
(* held to the commit and blocks every other writer of the row.            *)
(*                                                                         *)
(* Not modelled: handler, payload, timeout_secs, updated_at (never read by *)
(* the operations below), delete_job and list_jobs.                        *)
(***************************************************************************)
EXTENDS Integers, FiniteSets, Sequences, TLC

VARIABLES jobs, lock, now, wk, adm, swp, ret, budget, reclaimed, swept, loop, claims

vars == <<jobs, lock, now, wk, adm, swp, ret, budget, reclaimed, swept, loop, claims>>

\* ------------------------------------------------------------------ bounds
\* The clock stops at MaxTime (seconds).
MaxTime == 122
\* At most MaxOpen transactions are open at the same time.
MaxOpen == 2
\* At most MaxCalls transactions that write are started in all (a call that only reads,
\* or raises before its first statement, is not counted).
MaxCalls == 4
\* ... and at most MaxCoreCalls where only the workers and the sweep act.
MaxCoreCalls == 6

\* ------------------------------------------------------- program constants
base_seconds == 5
max_delay_seconds == 3600
default_lease_seconds == 60

\* ------------------------------------------------------------- value sets
JobIds == {"j1", "j2"}
Workers == {"w1", "w2"}
\* the processes that call recover_expired_leases
Sweepers == {"s1", "s2"}
ClockSteps == {61}

NULL == "null"
\* a NULL timestamp column
NoTime == 0 - 1

\* queues each worker process is subscribed to (settings.worker_queues)
worker_queues == [w \in Workers |-> IF w = "w1" THEN {"default"} ELSE {"default", "emails"}]

\* JobStatus
JobStatus == {"scheduled", "queued", "running", "succeeded", "failed", "cancelled", "dead"}

\* JobCreate bodies sent to create_job; run_at is an absolute instant or NoTime (None)
CreateInputs ==
  { [queue |-> "default", priority |-> 0, max_attempts |-> 2, run_at |-> NoTime],
    [queue |-> "default", priority |-> 0, max_attempts |-> 1, run_at |-> NoTime],
    [queue |-> "emails",  priority |-> 5, max_attempts |-> 5, run_at |-> 61] }

\* JobUpdate bodies sent to update_job: the fields that are set (exclude_unset)
UpdateInputs ==
  { <<"max_attempts", 1>>, <<"run_at", 0>>, <<"run_at", 122>> }

\* the attributes class JobRepository defines
JobRepositoryAttrs ==
  { "get_by_id", "create", "delete", "update", "list_jobs", "find_next_runnable_job",
    "find_expired_leases", "set_running", "set_heartbeat", "set_succeeded",
    "set_failed", "set_dead", "set_queued_for_retry", "increment_attempts",
    "update_fields" }

\* (success, error) pairs a worker passes to complete_job: the executor's result,
\* whose error message is None on success and may be None on failure
Results == { <<TRUE, NULL>>, <<FALSE, NULL>>, <<FALSE, "boom">> }

\* ids are handed out in this order (they are fresh uuids: the order means nothing)
IdBefore(a, b) == a = "j1" /\ b = "j2"

\* ------------------------------------------------------------------- rows
\* A row of the jobs table; status "absent" stands for "no row with this id".
AbsentRow ==
  [status |-> "absent", queue |-> NULL, run_at |-> NoTime, priority |-> 0,
   max_attempts |-> 0, attempts |-> 0, lease_owner |-> NULL,
   lease_expires_at |-> NoTime, heartbeat_at |-> NoTime, last_error |-> NULL,
   created_at |-> NoTime]

\* Job(...) as JobRepository.create inserts it: column defaults for the rest
NewRow(inp, status, run_at, created_at) ==
  [status |-> status, queue |-> inp.queue, run_at |-> run_at,
   priority |-> inp.priority, max_attempts |-> inp.max_attempts, attempts |-> 0,
   lease_owner |-> NULL, lease_expires_at |-> NoTime, heartbeat_at |-> NoTime,
   last_error |-> NULL, created_at |-> created_at]

\* session.flush() of a loaded object: UPDATE of the changed columns only
Flush(db, loaded, new) ==
  [f \in DOMAIN db |-> IF new[f] # loaded[f] THEN new[f] ELSE db[f]]

\* the row lock of j is free for session s (an UPDATE of a locked row waits)
Unlocked(j, s) == lock[j] \in {NULL, s}

\* ------------------------------------------------------- core/leasing.py
Pow2(n) == IF n <= 0 THEN 1 ELSE 2 ^ n

Min(a, b) == IF a <= b THEN a ELSE b

compute_lease_expiry(t, lease_seconds) == t + lease_seconds

\* a retry delay that starts at the base for the first failure
calculate_retry_delay_from_base(attempts) ==
  Min(base_seconds * Pow2(attempts - 1), max_delay_seconds)

\* a backoff without the cap
calculate_retry_delay_uncapped(attempts) == base_seconds * Pow2(attempts)

calculate_retry_delay(attempts) == Min(base_seconds * Pow2(attempts), max_delay_seconds)

compute_next_run_at(t, attempts) == t + calculate_retry_delay(attempts)

\* an owns_lease that takes any worker for the owner of a running row
owns_lease_any_worker(job, worker_id) == job.status = "running"

owns_lease(job, worker_id) ==
  /\ job.status # "absent"
  /\ job.status = "running"
  /\ job.lease_owner = worker_id

\* a has_retries_remaining that allows one attempt more
has_retries_remaining_inclusive(job) == job.attempts <= job.max_attempts

has_retries_remaining(job) == job.attempts < job.max_attempts

\* a decision that leaves the attempt being completed out of the count
decide_without_this_attempt(job, success) ==
  IF success THEN "succeeded"
  ELSE IF job.attempts >= job.max_attempts THEN "dead"
  ELSE "retry"

\* a decision that looks at the attempts before it looks at success
decide_attempts_first(job, success) ==
  IF job.attempts + 1 >= job.max_attempts THEN "dead"
  ELSE IF success THEN "succeeded"
  ELSE "retry"

\* a decision that is DEAD only when the attempts would pass max_attempts
decide_past_max_attempts(job, success) ==
  IF success THEN "succeeded"
  ELSE IF job.attempts + 1 > job.max_attempts THEN "dead"
  ELSE "retry"

decide_completion_outcome(job, success) ==
  IF success THEN "succeeded"
  ELSE IF job.attempts + 1 >= job.max_attempts THEN "dead"
  ELSE "retry"

\* ---------------------------------------------------- repositories/job.py
\* a set_running that leaves the owner out
set_running_without_owner(job, lease_owner, lease_expires_at, heartbeat_at) ==
  [job EXCEPT !.status = "running", !.lease_expires_at = lease_expires_at,
              !.heartbeat_at = heartbeat_at]

set_running(job, lease_owner, lease_expires_at, heartbeat_at) ==
  [job EXCEPT !.status = "running", !.lease_owner = lease_owner,
              !.lease_expires_at = lease_expires_at, !.heartbeat_at = heartbeat_at]

\* a set_heartbeat that extends the lease without stamping heartbeat_at
set_heartbeat_without_stamp(job, lease_expires_at, heartbeat_at) ==
  [job EXCEPT !.lease_expires_at = lease_expires_at]

set_heartbeat(job, lease_expires_at, heartbeat_at) ==
  [job EXCEPT !.lease_expires_at = lease_expires_at, !.heartbeat_at = heartbeat_at]

set_succeeded(job) ==
  [job EXCEPT !.status = "succeeded", !.lease_owner = NULL, !.lease_expires_at = NoTime]

set_failed(job, error) ==
  [job EXCEPT !.status = "failed", !.last_error = error,
              !.lease_owner = NULL, !.lease_expires_at = NoTime]

\* a set_dead that leaves the lease with its owner
set_dead_keeps_lease(job, error) ==
  [job EXCEPT !.status = "dead", !.last_error = error]

set_dead(job, error) ==
  [job EXCEPT !.status = "dead", !.last_error = error,
              !.lease_owner = NULL, !.lease_expires_at = NoTime]

set_queued_for_retry(job, run_at) ==
  [job EXCEPT !.status = "queued", !.run_at = run_at, !.lease_owner = NULL,
              !.lease_expires_at = NoTime, !.heartbeat_at = NoTime]

increment_attempts(job) == [job EXCEPT !.attempts = @ + 1]

\* a WHERE clause without the run_at comparison
Runnable_without_run_at(job, queues, t) ==
  /\ job.queue \in queues
  /\ job.status \in {"queued", "scheduled"}

\* WHERE clause of find_next_runnable_job
Runnable(job, queues, t) ==
  /\ job.queue \in queues
  /\ job.status \in {"queued", "scheduled"}
  /\ job.run_at <= t

\* ORDER BY priority ASC in place of DESC
Before_priority_ascending(a, b) ==
  \/ a.priority < b.priority
  \/ a.priority = b.priority /\ a.run_at < b.run_at
  \/ a.priority = b.priority /\ a.run_at = b.run_at /\ a.created_at < b.created_at

\* ORDER BY priority DESC, run_at ASC, created_at ASC: a sorts strictly before b.
\* Among rows equal in all three any may come first.
Before(a, b) ==
  \/ a.priority > b.priority
  \/ a.priority = b.priority /\ a.run_at < b.run_at
  \/ a.priority = b.priority /\ a.run_at = b.run_at /\ a.created_at < b.created_at

\* WHERE clause of find_expired_leases
Expired(job, t) ==
  /\ job.status = "running"
  /\ job.lease_expires_at # NoTime
  /\ job.lease_expires_at < t

\* ------------------------------------------------------------- sessions
IdleWorker == [pc |-> "idle", job |-> NULL, snap |-> AbsentRow, success |-> FALSE,
               error |-> NULL, t |-> NoTime]

IdleAdmin == [pc |-> "idle", job |-> NULL, snap |-> AbsentRow, upd |-> <<>>]

IdleSweeper == [pc |-> "idle", t |-> NoTime, snaps |-> <<>>]

\* A Worker process: its place in Worker.run, the module's _shutdown_flag, the job
\* _claim_job returned and the ExecutionResult of its execution; after counts the
\* claims started with the flag set (2 stands for two or more), calls the
\* complete_job calls made for the job.  NoProcess: no Worker process runs (the
\* services are called by clients of their own).
NoProcess ==
  [pc |-> "off", shutdown |-> FALSE, job |-> NULL, outcome |-> NULL,
   success |-> FALSE, error |-> NULL, after |-> 0, calls |-> 0, worker_id |-> NULL]

\* Worker.worker_id (settings.worker_id): the identifier the process, or the
\* client in its place, passes to the LeasingService
WorkerId(w) == loop[w].worker_id

\* Each worker is configured with an identifier of its own.
OwnIds == [w \in Workers |-> [NoProcess EXCEPT !.worker_id = w]]

\* What is known of the claims of a job: n, how many times it was made running
\* since it was created or last retried by the admin (MaxClaimsCounted stands for
\* that many or more); by, the process that made the latest claim; was, the
\* processes that have claimed it.
MaxClaimsCounted == 3

NoClaim == [n |-> 0, by |-> NULL, was |-> {}]

\* the transactions that are open
Open == {w \in Workers : wk[w].pc # "idle"}
          \cup (IF adm.pc # "idle" THEN {"admin"} ELSE {})
          \cup {x \in Sweepers : swp[x].pc # "idle"}

CanOpen == Cardinality(Open) < MaxOpen

\* the budget of a specification that does not meter its calls
Unmetered == 0 - 1

\* a transaction that goes on to write is started
Call ==
  IF budget = Unmetered
  THEN UNCHANGED budget
  ELSE budget > 0 /\ budget' = budget - 1

\* a call that only reads is made
ReadOnly == UNCHANGED budget

\* ret is what the call that just ended returned to its caller: the operation, the
\* caller, the job id it was called with (or found), the value, and for recover the
\* count.  The caller takes it (Taken) before the next step.
NoRet == [op |-> "-", who |-> "-", job |-> "-", val |-> "-", n |-> 0]

ReturnedCount(op, who, j, val, n) ==
  /\ ret = NoRet
  /\ ret' = [op |-> op, who |-> who, job |-> j, val |-> val, n |-> n]

Returned(op, who, j, val) == ReturnedCount(op, who, j, val, 0)

Silent == ret = NoRet /\ ret' = NoRet

Taken ==
  /\ ret # NoRet
  /\ ret' = NoRet
  /\ UNCHANGED <<jobs, lock, now, wk, adm, swp, budget, reclaimed, swept, loop, claims>>

Init ==
  /\ jobs = [j \in JobIds |-> AbsentRow]
  /\ lock = [j \in JobIds |-> NULL]
  /\ now = 0
  /\ wk = [w \in Workers |-> IdleWorker]
  /\ adm = IdleAdmin
  /\ swp = [x \in Sweepers |-> IdleSweeper]
  /\ swept = NoTime
  /\ ret = NoRet
  /\ budget = MaxCalls
  /\ reclaimed = {}
  /\ loop = OwnIds
  /\ claims = [j \in JobIds |-> NoClaim]

\* ------------------------------------------------------------------ clock
Tick ==
  /\ \E d \in ClockSteps : now + d <= MaxTime /\ now' = now + d
  /\ UNCHANGED <<jobs, lock, wk, adm, swp, budget, reclaimed, swept, loop, claims>>
  /\ Silent

\* ------------------------------------------------------- services/job.py
\* a create_job that compares run_at < now in place of run_at <= now
create_job_strictly_past ==
  \E j \in JobIds, inp \in CreateInputs :
    /\ jobs[j].status = "absent"
    /\ \A k \in JobIds : jobs[k].status = "absent" => ~IdBefore(k, j)
    /\ Call
    /\ jobs' = [jobs EXCEPT ![j] =
         IF inp.run_at = NoTime \/ inp.run_at < now
         THEN NewRow(inp, "queued", now, now)
         ELSE NewRow(inp, "scheduled", inp.run_at, now)]
    /\ Returned("create", "admin", j, j)
    /\ swept' = NoTime
    /\ UNCHANGED <<lock, now, wk, adm, swp, reclaimed, loop, claims>>

\* JobService.create_job: one INSERT, committed by the request
create_job ==
  \E j \in JobIds, inp \in CreateInputs :
    /\ jobs[j].status = "absent"
    /\ \A k \in JobIds : jobs[k].status = "absent" => ~IdBefore(k, j)
    /\ Call
    /\ jobs' = [jobs EXCEPT ![j] =
         IF inp.run_at = NoTime \/ inp.run_at <= now
         THEN NewRow(inp, "queued", now, now)
         ELSE NewRow(inp, "scheduled", inp.run_at, now)]
    /\ Returned("create", "admin", j, j)
    /\ swept' = NoTime
    /\ UNCHANGED <<lock, now, wk, adm, swp, reclaimed, loop, claims>>

\* JobRepository.update_fields(job, **fields) with one field set
update_fields(job, upd) ==
  IF upd[1] = "max_attempts" THEN [job EXCEPT !.max_attempts = upd[2]]
  ELSE IF upd[1] = "run_at" THEN [job EXCEPT !.run_at = upd[2]]
  ELSE [job EXCEPT !.priority = upd[2]]

\* the request ends: commit, session closed
AdminReturn(op, j, r) == adm' = IdleAdmin /\ Returned(op, "admin", j, r)

\* the request ends without a write
AdminReject(op, j) == AdminReturn(op, j, "none") /\ ReadOnly

\* get_by_id found a row the request goes on to write: the session stays open
AdminFetch(op, j, upd) ==
  /\ CanOpen
  /\ Call
  /\ adm' = [pc |-> op, job |-> j, snap |-> jobs[j], upd |-> upd]
  /\ Silent

\* JobService.update_job: get_by_id; None when there is no such row
update_job_fetch ==
  /\ adm.pc = "idle"
  /\ \E j \in JobIds, upd \in UpdateInputs :
       IF jobs[j].status = "absent"
       THEN AdminReject("update", j)
       ELSE AdminFetch("update", j, upd)
  /\ UNCHANGED <<jobs, lock, now, wk, swp, reclaimed, swept, loop, claims>>

\* JobService.update_job: update_fields, commit
update_job_finish ==
  /\ adm.pc = "update"
  /\ Unlocked(adm.job, "admin")
  /\ jobs' = [jobs EXCEPT ![adm.job] =
       Flush(@, adm.snap, update_fields(adm.snap, adm.upd))]
  /\ AdminReturn("update", adm.job, adm.job)
  /\ swept' = NoTime
  /\ UNCHANGED <<lock, now, wk, swp, budget, reclaimed, loop, claims>>

\* a cancel_job whose terminal-status test leaves out cancelled
cancel_job_fetch_without_cancelled ==
  /\ adm.pc = "idle"
  /\ \E j \in JobIds :
       IF jobs[j].status = "absent"
       THEN AdminReject("cancel", j)
       ELSE IF jobs[j].status \in {"succeeded", "failed", "dead"}
       THEN AdminReject("cancel", j)
       ELSE AdminFetch("cancel", j, <<>>)
  /\ UNCHANGED <<jobs, lock, now, wk, swp, reclaimed, swept, loop, claims>>

\* JobService.cancel_job: get_by_id; None for no row or a terminal status
cancel_job_fetch ==
  /\ adm.pc = "idle"
  /\ \E j \in JobIds :
       IF jobs[j].status = "absent"
       THEN AdminReject("cancel", j)
       ELSE IF jobs[j].status \in {"succeeded", "failed", "dead", "cancelled"}
       THEN AdminReject("cancel", j)
       ELSE AdminFetch("cancel", j, <<>>)
  /\ UNCHANGED <<jobs, lock, now, wk, swp, reclaimed, swept, loop, claims>>

\* JobService.cancel_job: update_fields(status=cancelled, lease fields None), commit
cancel_job_finish ==
  /\ adm.pc = "cancel"
  /\ Unlocked(adm.job, "admin")
  /\ jobs' = [jobs EXCEPT ![adm.job] =
       Flush(@, adm.snap,
             [adm.snap EXCEPT !.status = "cancelled", !.lease_owner = NULL,
                              !.lease_expires_at = NoTime])]
  /\ AdminReturn("cancel", adm.job, adm.job)
  /\ swept' = NoTime
  /\ UNCHANGED <<lock, now, wk, swp, budget, reclaimed, loop, claims>>

\* a retry_job that accepts every status that is not running
retry_job_fetch_any_idle_status ==
  /\ adm.pc = "idle"
  /\ \E j \in JobIds :
       IF jobs[j].status = "absent"
       THEN AdminReject("retry", j)
       ELSE IF jobs[j].status = "running"
       THEN AdminReject("retry", j)
       ELSE AdminFetch("retry", j, <<>>)
  /\ UNCHANGED <<jobs, lock, now, wk, swp, reclaimed, swept, loop, claims>>

\* JobService.retry_job: get_by_id; None for no row or a status other than failed, dead
retry_job_fetch ==
  /\ adm.pc = "idle"
  /\ \E j \in JobIds :
       IF jobs[j].status = "absent"
       THEN AdminReject("retry", j)
       ELSE IF jobs[j].status \notin {"failed", "dead"}
       THEN AdminReject("retry", j)
       ELSE AdminFetch("retry", j, <<>>)
  /\ UNCHANGED <<jobs, lock, now, wk, swp, reclaimed, swept, loop, claims>>

\* JobService.retry_job: now = utcnow(); update_fields(...), commit
retry_job_finish ==
  /\ adm.pc = "retry"
  /\ Unlocked(adm.job, "admin")
  /\ jobs' = [jobs EXCEPT ![adm.job] =
       Flush(@, adm.snap,
             [adm.snap EXCEPT !.status = "queued", !.run_at = now, !.attempts = 0,
                              !.last_error = NULL, !.lease_owner = NULL,
                              !.lease_expires_at = NoTime, !.heartbeat_at = NoTime])]
  /\ AdminReturn("retry", adm.job, adm.job)
  /\ swept' = NoTime
  /\ claims' = [claims EXCEPT ![adm.job] = NoClaim]
  /\ UNCHANGED <<lock, now, wk, swp, budget, reclaimed, loop>>

\* ---------------------------------------------------- services/leasing.py
\* the call returns r: commit (or rollback), session closed
WorkerReturn(w, op, j, r) == wk' = [wk EXCEPT ![w] = IdleWorker] /\ Returned(op, w, j, r)

\* JobRepository.find_next_runnable_job inside a transaction: SELECT ... ORDER BY ...
\* FOR UPDATE SKIP LOCKED LIMIT 1.  With a row found the transaction stays open,
\* holding the row lock, until set_running_commit; without one it returns None.
find_next_runnable_job(w) ==
  /\ wk[w].pc = "idle"
  /\ LET found == {j \in JobIds : /\ Runnable(jobs[j], worker_queues[w], now)
                                  /\ lock[j] = NULL}
     IN IF found = {}
        THEN /\ WorkerReturn(w, "claim", "none", "none")
             /\ ReadOnly
             /\ UNCHANGED lock
        ELSE \E j \in found :
               /\ CanOpen
               /\ Call
               /\ Silent
               /\ \A k \in found : ~Before(jobs[k], jobs[j])
               /\ lock' = [lock EXCEPT ![j] = w]
               /\ wk' = [wk EXCEPT ![w] = [IdleWorker EXCEPT !.pc = "claim", !.job = j,
                                             !.snap = jobs[j], !.t = now]]
  /\ UNCHANGED <<jobs, now, adm, swp, reclaimed, swept, loop, claims>>

\* LeasingService.claim_next_job.  Its query is the attribute lookup
\* JobRepository.find_next_runnable, which raises AttributeError unless the class
\* defines that name; the exception leaves the transaction (rollback) before any
\* statement ran.
claim_next_job(w) ==
  IF "find_next_runnable" \in JobRepositoryAttrs
  THEN find_next_runnable_job(w)
  ELSE /\ wk[w].pc = "idle"
       /\ ReadOnly
       /\ WorkerReturn(w, "claim_next_job", "none", "raised")
       /\ UNCHANGED <<jobs, lock, now, adm, swp, reclaimed, swept, loop, claims>>

\* the rest of the claim transaction on the locked row: JobRepository.set_running
\* with the lease computed from the time read before the query, then commit
set_running_commit(w) ==
  /\ wk[w].pc = "claim"
  /\ LET s == wk[w] IN
       /\ jobs' = [jobs EXCEPT ![s.job] =
            Flush(@, s.snap,
                  set_running(s.snap, WorkerId(w),
                              compute_lease_expiry(s.t, default_lease_seconds), s.t))]
       /\ lock' = [lock EXCEPT ![s.job] = NULL]
       /\ reclaimed' = reclaimed \ {<<WorkerId(w), s.job>>}
       /\ WorkerReturn(w, "claim", s.job, s.job)
       /\ claims' = [claims EXCEPT ![s.job] =
            [n |-> Min(@.n + 1, MaxClaimsCounted), by |-> w, was |-> @.was \cup {w}]]
  /\ swept' = NoTime
  /\ UNCHANGED <<now, adm, swp, budget, loop>>

\* a heartbeat that refuses a lease whose expiry has passed
heartbeat_fetch_refusing_expired(w) ==
  /\ wk[w].pc = "idle"
  /\ \E j \in JobIds :
       IF ~owns_lease(jobs[j], WorkerId(w)) \/ jobs[j].lease_expires_at < now
       THEN WorkerReturn(w, "heartbeat", j, "false") /\ ReadOnly
       ELSE /\ CanOpen
            /\ Call
            /\ wk' = [wk EXCEPT ![w] = [IdleWorker EXCEPT !.pc = "heartbeat", !.job = j,
                                          !.snap = jobs[j], !.t = now]]
            /\ Silent
  /\ UNCHANGED <<jobs, lock, now, adm, swp, reclaimed, swept, loop, claims>>

\* LeasingService.heartbeat: now = utcnow(); get_by_id; False unless owns_lease
heartbeat_fetch(w) ==
  /\ wk[w].pc = "idle"
  /\ \E j \in JobIds :
       IF ~owns_lease(jobs[j], WorkerId(w))
       THEN WorkerReturn(w, "heartbeat", j, "false") /\ ReadOnly
       ELSE /\ CanOpen
            /\ Call
            /\ wk' = [wk EXCEPT ![w] = [IdleWorker EXCEPT !.pc = "heartbeat", !.job = j,
                                          !.snap = jobs[j], !.t = now]]
            /\ Silent
  /\ UNCHANGED <<jobs, lock, now, adm, swp, reclaimed, swept, loop, claims>>

\* LeasingService.heartbeat: set_heartbeat with the lease computed from the time
\* read before the fetch, commit, True
heartbeat_finish(w) ==
  /\ wk[w].pc = "heartbeat"
  /\ LET s == wk[w] IN
       /\ Unlocked(s.job, w)
       /\ jobs' = [jobs EXCEPT ![s.job] =
            Flush(@, s.snap,
                  set_heartbeat(s.snap,
                                compute_lease_expiry(s.t, default_lease_seconds), s.t))]
       /\ WorkerReturn(w, "heartbeat", s.job, "true")
  /\ swept' = NoTime
  /\ UNCHANGED <<lock, now, adm, swp, budget, reclaimed, loop, claims>>

\* LeasingService.complete_job: get_by_id; False unless owns_lease
complete_job_call(w, j, success, error) ==
  /\ wk[w].pc = "idle"
  /\ IF ~owns_lease(jobs[j], WorkerId(w))
     THEN WorkerReturn(w, "complete", j, "false") /\ ReadOnly
     ELSE /\ CanOpen
          /\ Call
          /\ wk' = [wk EXCEPT ![w] = [IdleWorker EXCEPT !.pc = "complete", !.job = j,
                                        !.snap = jobs[j], !.success = success,
                                        !.error = error]]
          /\ Silent
  /\ UNCHANGED <<jobs, lock, now, adm, swp, reclaimed, swept, loop, claims>>

\* complete_job called by a client for any job with any result
complete_job_fetch(w) ==
  \E j \in JobIds, res \in Results : complete_job_call(w, j, res[1], res[2])

\* a complete_job whose retry delay is computed before increment_attempts
CompleteDelayBeforeIncrement(job, success, error, t) ==
  LET outcome == decide_completion_outcome(job, success) IN
    IF outcome = "succeeded" THEN set_succeeded(job)
    ELSE IF outcome = "dead"
    THEN set_dead(increment_attempts(job),
                  IF error # NULL THEN error ELSE "Max attempts exceeded")
    ELSE set_queued_for_retry(
           set_failed(increment_attempts(job),
                      IF error # NULL THEN error ELSE "Unknown error"),
           compute_next_run_at(t, job.attempts))

\* a RETRY branch that ends after set_failed
CompleteStopsAtFailed(job, success, error, t) ==
  LET outcome == decide_completion_outcome(job, success) IN
    IF outcome = "succeeded" THEN set_succeeded(job)
    ELSE IF outcome = "dead"
    THEN set_dead(increment_attempts(job),
                  IF error # NULL THEN error ELSE "Max attempts exceeded")
    ELSE set_failed(increment_attempts(job),
                    IF error # NULL THEN error ELSE "Unknown error")

\* the row complete_job leaves in the session for the loaded row
CompleteTransition(job, success, error, t) ==
  LET outcome == decide_completion_outcome(job, success) IN
    IF outcome = "succeeded" THEN set_succeeded(job)
    ELSE IF outcome = "dead"
    THEN set_dead(increment_attempts(job),
                  IF error # NULL THEN error ELSE "Max attempts exceeded")
    ELSE LET inc == increment_attempts(job)
             next_run == compute_next_run_at(t, inc.attempts)
         IN set_queued_for_retry(
              set_failed(inc, IF error # NULL THEN error ELSE "Unknown error"),
              next_run)

\* LeasingService.complete_job: the transition of the decided outcome (utcnow() is
\* read after increment_attempts), commit, True
complete_job_finish(w) ==
  /\ wk[w].pc = "complete"
  /\ LET s == wk[w] IN
       /\ Unlocked(s.job, w)
       /\ jobs' = [jobs EXCEPT ![s.job] =
            Flush(@, s.snap, CompleteTransition(s.snap, s.success, s.error, now))]
       /\ WorkerReturn(w, "complete", s.job, "true")
  /\ swept' = NoTime
  /\ UNCHANGED <<lock, now, adm, swp, budget, reclaimed, loop, claims>>

\* LeasingService.recover_expired_leases: now = utcnow(); find_expired_leases;
\* with no row found the loop body never runs and the call returns 0.  The sweeps
\* are alike: the one that overlaps another is s2.
\* History: swept is the time the last sweep that found rows read the table, until
\* a transaction other than a sweep writes.
recover_fetch(x) ==
  /\ swp[x].pc = "idle"
  /\ x = "s2" => swp["s1"].pc # "idle"
  /\ LET expired == {k \in JobIds : Expired(jobs[k], now)} IN
       IF expired = {}
       THEN /\ ReturnedCount("recover", x, "-", "-", 0)
            /\ ReadOnly
            /\ UNCHANGED <<swp, swept>>
       ELSE /\ CanOpen
            /\ Call
            /\ swp' = [swp EXCEPT ![x] = [pc |-> "recover", t |-> now,
                                          snaps |-> [j \in expired |-> jobs[j]]]]
            /\ swept' = now
            /\ Silent
  /\ UNCHANGED <<jobs, lock, now, wk, adm, reclaimed, loop, claims>>

\* a loop body that counts the attempt and leaves the lease with its owner
RecoverKeepsLease(job, t) == [job EXCEPT !.attempts = @ + 1]

\* the row the loop body of recover_expired_leases leaves in the session
RecoverTransition(job, t) ==
  LET inc == increment_attempts(job) IN
    IF has_retries_remaining(inc)
    THEN set_queued_for_retry(inc, compute_next_run_at(t, inc.attempts))
    ELSE set_dead(inc, "Lease expired - worker presumed dead")

\* History: the leases the open sweep x takes away when it commits, as
\* <<worker, job>>: the owner it loaded, and the owner the row has by then.
Reclaims(x) ==
  {<<swp[x].snaps[j].lease_owner, j>> : j \in DOMAIN swp[x].snaps}
    \cup {<<jobs[j].lease_owner, j>> :
            j \in {k \in DOMAIN swp[x].snaps : jobs[k].status = "running"}}

\* LeasingService.recover_expired_leases: the loop over the loaded rows, commit
recover_finish(x) ==
  /\ swp[x].pc = "recover"
  /\ \A j \in DOMAIN swp[x].snaps : Unlocked(j, x)
  /\ jobs' = [j \in JobIds |->
       IF j \in DOMAIN swp[x].snaps
       THEN Flush(jobs[j], swp[x].snaps[j], RecoverTransition(swp[x].snaps[j], swp[x].t))
       ELSE jobs[j]]
  /\ swp' = [swp EXCEPT ![x] = IdleSweeper]
  /\ ReturnedCount("recover", x, "-", "-",
       Cardinality({j \in DOMAIN swp[x].snaps :
                      has_retries_remaining(increment_attempts(swp[x].snaps[j]))}))
  /\ reclaimed' = reclaimed \cup Reclaims(x)
  /\ UNCHANGED <<lock, now, wk, adm, budget, swept, loop, claims>>

Next ==
  \/ Taken
  \/ Tick
  \/ create_job
  \/ update_job_fetch
  \/ update_job_finish
  \/ cancel_job_fetch
  \/ cancel_job_finish
  \/ retry_job_fetch
  \/ retry_job_finish
  \/ \E w \in Workers : claim_next_job(w)
  \/ \E w \in Workers : find_next_runnable_job(w)
  \/ \E w \in Workers : set_running_commit(w)
  \/ \E w \in Workers : heartbeat_fetch(w)
  \/ \E w \in Workers : heartbeat_finish(w)
  \/ \E w \in Workers : complete_job_fetch(w)
  \/ \E w \in Workers : complete_job_finish(w)
  \/ \E x \in Sweepers : recover_fetch(x)
  \/ \E x \in Sweepers : recover_finish(x)

Spec == Init /\ [][Next]_vars

\* The workers and the recovery sweep alone, on jobs that are created and never
\* touched by update, cancel or retry.
NextCore ==
  \/ Taken
  \/ Tick
  \/ create_job
  \/ \E w \in Workers : claim_next_job(w)
  \/ \E w \in Workers : find_next_runnable_job(w)
  \/ \E w \in Workers : set_running_commit(w)
  \/ \E w \in Workers : heartbeat_fetch(w)
  \/ \E w \in Workers : heartbeat_finish(w)
  \/ \E w \in Workers : complete_job_fetch(w)
  \/ \E w \in Workers : complete_job_finish(w)
  \/ \E x \in Sweepers : recover_fetch(x)
  \/ \E x \in Sweepers : recover_finish(x)

InitCore ==
  /\ jobs = [j \in JobIds |-> AbsentRow]
  /\ lock = [j \in JobIds |-> NULL]
  /\ now = 0
  /\ wk = [w \in Workers |-> IdleWorker]
  /\ adm = IdleAdmin
  /\ swp = [x \in Sweepers |-> IdleSweeper]
  /\ swept = NoTime
  /\ ret = NoRet
  /\ budget = MaxCoreCalls
  /\ reclaimed = {}
  /\ loop = OwnIds
  /\ claims = [j \in JobIds |-> NoClaim]

SpecCore == InitCore /\ [][NextCore]_vars

\* ------------------------------------------------------------- properties
Terminal == {"succeeded", "cancelled", "dead"}

Rows == {j \in JobIds : jobs[j].status # "absent"}

\* the operations that end a claim: the service's, and the repository's transaction
ClaimOps == {"claim_next_job", "claim"}

C2_RacingClaimOneWins ==
  (ret.op \in ClaimOps /\ ret.val \notin JobIds) =>
    /\ ret.val = "none"
    /\ \A j \in JobIds :
         Runnable(jobs[j], worker_queues[ret.who], now) => lock[j] \notin {NULL, ret.who}

\* C3: a row that is running has a lease owner and a lease expiry, after every
\* committed transaction.
C3_RunningHasLease ==
  \A j \in JobIds :
    jobs[j].status = "running" =>
      jobs[j].lease_owner # NULL /\ jobs[j].lease_expires_at # NoTime

\* a running row a heartbeat has just written
C3_Witness ==
  /\ ret.op = "heartbeat"
  /\ ret.val = "true"
  /\ jobs[ret.job].status = "running"
  /\ jobs[ret.job].lease_owner = ret.who

\* C4: a row that is not running has neither a lease owner nor a lease expiry,
\* after every committed transaction.
C4_NotRunningHasNoLease ==
  \A j \in Rows :
    jobs[j].status # "running" =>
      jobs[j].lease_owner = NULL /\ jobs[j].lease_expires_at = NoTime

\* C5: with only ClaimNext, Complete and RecoverExpired acting on the jobs, a job
\* created with attempts = 0 and max_attempts >= 1 never has attempts above
\* max_attempts.
C5_AttemptsWithinMax ==
  \A j \in Rows : jobs[j].attempts <= jobs[j].max_attempts

\* a job that used its last attempt, just after the call that wrote it
C5_Witness ==
  /\ ret.op \in {"complete", "recover"}
  /\ \E j \in Rows : /\ jobs[j].status = "dead"
                     /\ jobs[j].attempts = jobs[j].max_attempts
                     /\ jobs[j].attempts >= 2

\* C6: a row in a terminal status (succeeded, cancelled, dead) changes status only
\* in the commit of an admin retry of that row.
C6_TerminalLeftOnlyByRetry ==
  [][\A j \in JobIds :
       (jobs[j].status \in Terminal /\ jobs'[j].status # jobs[j].status)
         => (adm.pc = "retry" /\ adm.job = j /\ adm'.pc = "idle")]_vars

\* worker w calls op (heartbeat or complete) for job j in this step
Called(op, w, j) ==
  /\ wk[w].pc = "idle"
  /\ \/ wk'[w].pc = op /\ wk'[w].job = j
     \/ ret = NoRet /\ ret'.op = op /\ ret'.who = w /\ ret'.job = j

\* the call of op by w for j returns false in this step and changes no row
Refused(op, w, j) ==
  /\ ret' = [op |-> op, who |-> w, job |-> j, val |-> "false", n |-> 0]
  /\ jobs' = jobs

\* C7: Complete called by w for a job that does not exist, is not running, or is
\* leased to another worker returns false and changes no field of any row.
C7_CompleteRefusedWithoutLease ==
  [][\A w \in Workers, j \in JobIds :
       (/\ Called("complete", w, j)
        /\ \/ jobs[j].status = "absent"
           \/ jobs[j].status # "running"
           \/ jobs[j].lease_owner # w)
         => Refused("complete", w, j)]_vars

\* Complete has just been refused to a worker on a job another worker holds
C7_Witness ==
  /\ ret.op = "complete"
  /\ ret.val = "false"
  /\ jobs[ret.job].status = "running"
  /\ jobs[ret.job].lease_owner \in Workers \ {ret.who}

\* C8: Heartbeat called by w for a job that does not exist, is not running, or is
\* leased to another worker returns false and changes no field of any row.
C8_HeartbeatRefusedWithoutLease ==
  [][\A w \in Workers, j \in JobIds :
       (/\ Called("heartbeat", w, j)
        /\ \/ jobs[j].status = "absent"
           \/ jobs[j].status # "running"
           \/ jobs[j].lease_owner # w)
         => Refused("heartbeat", w, j)]_vars

\* Heartbeat has just been refused to a worker on a job another worker holds
C8_Witness ==
  /\ ret.op = "heartbeat"
  /\ ret.val = "false"
  /\ jobs[ret.job].status = "running"
  /\ jobs[ret.job].lease_owner \in Workers \ {ret.who}

\* C9: once recovery has reclaimed job j from worker w, and until w claims j
\* again, every Heartbeat and Complete that w calls for j returns false and leaves
\* j as it is, whether or not another worker has claimed j since.
C9_ReclaimedOwnerRefused ==
  [][\A w \in Workers, j \in JobIds, op \in {"heartbeat", "complete"} :
       (Called(op, w, j) /\ <<w, j>> \in reclaimed)
         => (ret' = [op |-> op, who |-> w, job |-> j, val |-> "false", n |-> 0]
             /\ jobs'[j] = jobs[j])]_vars

\* the worker that lost j to recovery has just been refused while another holds j
C9_Witness ==
  /\ ret.op \in {"heartbeat", "complete"}
  /\ ret.val = "false"
  /\ <<ret.who, ret.job>> \in reclaimed
  /\ jobs[ret.job].status = "running"
  /\ jobs[ret.job].lease_owner \in Workers \ {ret.who}
  /\ jobs[ret.job].attempts >= 1

\* C10: a cancel committed on a job a worker holds running leaves it cancelled with
\* the lease cleared and attempts as they were, and a Complete called for a
\* cancelled job returns false and leaves it cancelled with the same attempts.
C10_CancelWhileRunning ==
  [][/\ (adm.pc = "cancel" /\ adm'.pc = "idle" /\ jobs[adm.job].status = "running")
          => /\ jobs'[adm.job].status = "cancelled"
             /\ jobs'[adm.job].lease_owner = NULL
             /\ jobs'[adm.job].lease_expires_at = NoTime
             /\ jobs'[adm.job].attempts = jobs[adm.job].attempts
     /\ \A w \in Workers, j \in JobIds :
          (Called("complete", w, j) /\ jobs[j].status = "cancelled")
            => Refused("complete", w, j)]_vars

\* worker w's Complete flushes and commits in this step
CompleteCommits(w) == wk[w].pc = "complete" /\ wk'[w].pc = "idle"

\* the row is leased to w
LeasedTo(job, w) == job.status = "running" /\ job.lease_owner = w

\* this step changes no row but j
OnlyRow(j) == \A k \in JobIds \ {j} : jobs'[k] = jobs[k]

\* this step returns true to w from its Complete of j
CompleteTrue(w, j) ==
  ret' = [op |-> "complete", who |-> w, job |-> j, val |-> "true", n |-> 0]

\* the row a failed Complete with retries left commits, from the row old it found
RetriedRow(old, error, t) ==
  [old EXCEPT !.attempts = old.attempts + 1,
              !.status = "queued",
              !.last_error = IF error # NULL THEN error ELSE "Unknown error",
              !.lease_owner = NULL,
              !.lease_expires_at = NoTime,
              !.run_at = t + calculate_retry_delay(old.attempts + 1)]

\* w's Complete(success = false), read with attempts + 1 < max_attempts, commits in
\* this step on a row w still holds
FailsWithRetriesLeft(w) ==
  /\ CompleteCommits(w)
  /\ ~wk[w].success
  /\ wk[w].snap.attempts + 1 < wk[w].snap.max_attempts
  /\ LeasedTo(jobs[wk[w].job], w)

\* C11 as stated: Complete(success = false) by the worker that holds the lease, on a
\* job read with attempts + 1 < max_attempts, commits in one transaction exactly:
\* attempts one higher, status queued, last_error the given error (or "Unknown
\* error"), lease_owner and lease_expires_at null, run_at = now +
\* retry_delay(attempts after the increment), later than now; no other field and
\* no other row changes, and it returns true.
C11_FailWithRetriesLeft ==
  [][\A w \in Workers :
       FailsWithRetriesLeft(w)
         => /\ jobs'[wk[w].job] = RetriedRow(jobs[wk[w].job], wk[w].error, now)
            /\ jobs'[wk[w].job].run_at > now
            /\ OnlyRow(wk[w].job)
            /\ CompleteTrue(w, wk[w].job)]_vars

\* C11 amended: the same transaction also sets heartbeat_at to null; with that
\* field added the list is exact.
C11_FailWithRetriesLeftClearsHeartbeat ==
  [][\A w \in Workers :
       FailsWithRetriesLeft(w)
         => /\ jobs'[wk[w].job] =
                 [RetriedRow(jobs[wk[w].job], wk[w].error, now)
                    EXCEPT !.heartbeat_at = NoTime]
            /\ jobs'[wk[w].job].run_at > now
            /\ jobs[wk[w].job].heartbeat_at # NoTime
            /\ OnlyRow(wk[w].job)
            /\ CompleteTrue(w, wk[w].job)]_vars

\* a failed Complete has just re-queued a job with a later run_at
C11_Witness ==
  /\ ret.op = "complete"
  /\ ret.val = "true"
  /\ jobs[ret.job].status = "queued"
  /\ jobs[ret.job].attempts = 1
  /\ jobs[ret.job].last_error \in {"boom", "Unknown error"}
  /\ jobs[ret.job].run_at > now
  /\ jobs[ret.job].heartbeat_at = NoTime

\* w's Complete(success = false), read with attempts + 1 >= max_attempts, commits
\* in this step on a row w still holds
FailsOnLastAttempt(w) ==
  /\ CompleteCommits(w)
  /\ ~wk[w].success
  /\ wk[w].snap.attempts + 1 >= wk[w].snap.max_attempts
  /\ LeasedTo(jobs[wk[w].job], w)

C13_SuccessAlwaysSucceeds ==
  [][\A w \in Workers :
       (CompleteCommits(w) /\ wk[w].success)
         => /\ jobs'[wk[w].job].status = "succeeded"
            /\ jobs'[wk[w].job].lease_owner = NULL
            /\ jobs'[wk[w].job].lease_expires_at = NoTime
            /\ jobs'[wk[w].job].attempts = jobs[wk[w].job].attempts
            /\ CompleteTrue(w, wk[w].job)]_vars

\* a Complete(success = true) has just succeeded on its last attempt, after the
\* lease it held had expired
C13_Witness ==
  /\ ret.op = "complete"
  /\ ret.val = "true"
  /\ jobs[ret.job].status = "succeeded"
  /\ jobs[ret.job].attempts + 1 >= jobs[ret.job].max_attempts
  /\ jobs[ret.job].heartbeat_at + default_lease_seconds < now

\* w's failed Complete re-queues in this step a job of max_attempts 5 that had
\* failed n times before
FailsAgain(w, n) ==
  /\ FailsWithRetriesLeft(w)
  /\ wk[w].snap.max_attempts = 5
  /\ jobs[wk[w].job].attempts = n

\* the row is queued with these attempts and this run_at
QueuedAt(job, attempts, run_at) ==
  job.status = "queued" /\ job.attempts = attempts /\ job.run_at = run_at

\* C14 as stated: for a job with attempts = 0 and max_attempts = 5, the first failed
\* Complete at time t leaves status queued, attempts 1 and run_at = t + 5 s; the
\* second, at time t', leaves status queued, attempts 2 and run_at = t' + 10 s.
C14_BackoffFiveThenTen ==
  [][\A w \in Workers :
       /\ FailsAgain(w, 0) => QueuedAt(jobs'[wk[w].job], 1, now + 5)
       /\ FailsAgain(w, 1) => QueuedAt(jobs'[wk[w].job], 2, now + 10)]_vars

\* C14 amended: the delay is 5 s * 2^attempts on the attempts after the increment:
\* the first failed Complete leaves run_at = t + 10 s, the second run_at = t' + 20 s.
C14_BackoffTenThenTwenty ==
  [][\A w \in Workers :
       /\ FailsAgain(w, 0) => QueuedAt(jobs'[wk[w].job], 1, now + 10)
       /\ FailsAgain(w, 1) => QueuedAt(jobs'[wk[w].job], 2, now + 20)]_vars

\* the second failed Complete of a job of max_attempts 5 has just committed
C14_Witness ==
  /\ ret.op = "complete"
  /\ ret.val = "true"
  /\ jobs[ret.job].max_attempts = 5
  /\ QueuedAt(jobs[ret.job], 2, now + 20)

\* the rows whose lease has expired at time t
ExpiredRows(t) ==
  {j \in JobIds : /\ jobs[j].status = "running"
                  /\ jobs[j].lease_expires_at # NoTime
                  /\ jobs[j].lease_expires_at < t}

\* sweep x reads in this step (with rows found it stays open, with none it returns)
SweepReads(x) ==
  /\ swp[x].pc = "idle"
  /\ swp'[x].pc = "recover" \/ (ret'.op = "recover" /\ ret'.who = x)

\* the open sweep x writes and commits in this step
SweepCommits(x) == swp[x].pc = "recover" /\ swp'[x].pc = "idle"

\* C15: RecoverExpired takes every row with status running and lease_expires_at <
\* now, and no other row.  On each it increments attempts; if the new attempts <
\* max_attempts the row becomes queued with the lease cleared and run_at = now +
\* retry_delay(new attempts) (attempts 0 -> 1: now + 10 s), otherwise dead with
\* last_error "Lease expired - worker presumed dead".  Rows it did not take are
\* unchanged, and it returns the number of rows it moved to queued.  (A taken row
\* is compared with what the sweep read if no other transaction wrote it since.)
C15_RecoverExpiredRows ==
  [][\A x \in Sweepers :
      /\ SweepReads(x) =>
          /\ jobs' = jobs
          /\ IF ExpiredRows(now) = {}
             THEN ret'.n = 0 /\ swp' = swp
             ELSE DOMAIN swp'[x].snaps = ExpiredRows(now) /\ swp'[x].t = now
      /\ SweepCommits(x) =>
          /\ \A j \in JobIds \ DOMAIN swp[x].snaps : jobs'[j] = jobs[j]
          /\ \A j \in DOMAIN swp[x].snaps :
               LET old == jobs[j]
                   new == jobs'[j]
               IN old = swp[x].snaps[j] =>
                    /\ new.attempts = old.attempts + 1
                    /\ IF old.attempts + 1 < old.max_attempts
                       THEN /\ new.status = "queued"
                            /\ new.lease_owner = NULL
                            /\ new.lease_expires_at = NoTime
                            /\ new.run_at = swp[x].t + calculate_retry_delay(old.attempts + 1)
                            /\ (old.attempts = 0 => new.run_at = swp[x].t + 10)
                       ELSE /\ new.status = "dead"
                            /\ new.last_error = "Lease expired - worker presumed dead"
          /\ ret'.op = "recover"
          /\ ret'.n = Cardinality({j \in DOMAIN swp[x].snaps :
                                     jobs'[j].status = "queued"})]_vars

\* a sweep has just returned 1, and sweeps have left one job queued for its first
\* retry and another dead
C15_Witness ==
  /\ ret.op = "recover"
  /\ ret.n = 1
  /\ \E j \in JobIds : /\ jobs[j].status = "queued"
                       /\ jobs[j].attempts = 1
                       /\ \E w \in Workers : <<w, j>> \in reclaimed
  /\ \E j \in JobIds : /\ jobs[j].status = "dead"
                       /\ jobs[j].last_error = "Lease expired - worker presumed dead"

\* C16: when a sweep has read and committed, no sweep is open, no other
\* transaction has written since that sweep read, and no further lease has run out
\* since, the sweep that follows returns 0 and changes no row.
C16_SecondSweepFindsNothing ==
  [][\A x \in Sweepers :
       (/\ SweepReads(x)
        /\ \A y \in Sweepers : swp[y].pc = "idle"
        /\ swept # NoTime
        /\ ExpiredRows(now) \subseteq ExpiredRows(swept))
         => /\ ret' = [op |-> "recover", who |-> x, job |-> "-", val |-> "-", n |-> 0]
            /\ jobs' = jobs
            /\ swp' = swp]_vars

\* a sweep has just returned 0 right after a sweep that reclaimed a lease
C16_Witness ==
  /\ ret.op = "recover"
  /\ ret.n = 0
  /\ swept # NoTime
  /\ reclaimed # {}
  /\ \A x \in Sweepers : swp[x].pc = "idle"

\* C17: overlapping sweeps are safe.  When sweep x commits a row whose lease another
\* sweep has already reclaimed since x read it: if no worker has claimed the row
\* since, x leaves its status and attempts as the other sweep left them (attempts
\* counted once per expired lease); if a worker has re-claimed it with a lease
\* that has not expired, x does not change the row.
C17_OverlappingSweepsSafe ==
  [][\A x \in Sweepers :
       SweepCommits(x) =>
         \A j \in DOMAIN swp[x].snaps :
           <<swp[x].snaps[j].lease_owner, j>> \in reclaimed =>
             /\ jobs[j].status # "running" =>
                  /\ jobs'[j].status = jobs[j].status
                  /\ jobs'[j].attempts = jobs[j].attempts
             /\ (jobs[j].status = "running" /\ jobs[j].lease_expires_at >= now) =>
                  jobs'[j] = jobs[j]]_vars

\* the claim of w selects a row / returns the row it selected
ClaimSelects(w) == wk[w].pc = "idle" /\ wk'[w].pc = "claim"

ClaimReturns(w) ==
  /\ wk[w].pc = "claim"
  /\ ret'.op \in ClaimOps
  /\ ret'.who = w
  /\ ret'.val \in JobIds

\* C18: a claim only returns a job that, at the time of the call, was in one of the
\* caller's queues, was queued or scheduled, and had run_at <= now: the row the
\* query selects satisfies this in the committed state it reads, and the job
\* returned is that row.  So a job whose run_at is in the future is not claimed
\* whatever its priority, and a running, succeeded, failed, cancelled or dead job
\* is not claimed.
C18_ClaimsOnlyEligible ==
  [][\A w \in Workers :
       /\ ClaimSelects(w) =>
            LET j == wk'[w].job IN
              /\ jobs[j].queue \in worker_queues[w]
              /\ jobs[j].status \in {"queued", "scheduled"}
              /\ jobs[j].status \notin {"running", "succeeded", "failed", "cancelled", "dead"}
              /\ jobs[j].run_at <= now
              /\ wk'[w].snap = jobs[j]
              /\ wk'[w].t = now
       /\ ClaimReturns(w) =>
            /\ ret'.val = wk[w].job
            /\ wk[w].snap.queue \in worker_queues[w]
            /\ wk[w].snap.status \in {"queued", "scheduled"}
            /\ wk[w].snap.run_at <= wk[w].t]_vars

\* a worker was handed a job while a job of higher priority in its queues, whose
\* run_at is still in the future, stays scheduled
C18_Witness ==
  /\ ret.op = "claim"
  /\ ret.val \in JobIds
  /\ \E k \in JobIds :
       /\ jobs[k].status = "scheduled"
       /\ jobs[k].queue \in worker_queues[ret.who]
       /\ jobs[k].run_at > now
       /\ jobs[k].priority > jobs[ret.val].priority

\* the jobs a claim of w may take in the current state: eligible and not locked
EligibleUnlocked(w) ==
  {k \in JobIds : /\ jobs[k].queue \in worker_queues[w]
                  /\ jobs[k].status \in {"queued", "scheduled"}
                  /\ jobs[k].run_at <= now
                  /\ lock[k] = NULL}

\* C19: among the eligible, unlocked jobs a claim takes the first by priority
\* descending, then run_at ascending, then created_at ascending: no eligible
\* unlocked job has a higher priority than the one taken, nor the same priority
\* and an earlier run_at, nor the same priority and run_at and an earlier
\* created_at.  (A of priority 5 is taken before B of priority 1 even when B's
\* run_at is earlier.)
C19_ClaimOrder ==
  [][\A w \in Workers :
       ClaimSelects(w) =>
         LET a == jobs[wk'[w].job] IN
           /\ wk'[w].job \in EligibleUnlocked(w)
           /\ \A k \in EligibleUnlocked(w) :
                LET b == jobs[k] IN
                  /\ b.priority <= a.priority
                  /\ b.priority = a.priority => b.run_at >= a.run_at
                  /\ (b.priority = a.priority /\ b.run_at = a.run_at)
                       => b.created_at >= a.created_at]_vars

\* a claim has taken the job of higher priority although an eligible, unlocked
\* job of lower priority has the earlier run_at
C19_Witness ==
  \E w \in Workers, k \in JobIds :
    /\ wk[w].pc = "claim"
    /\ k # wk[w].job
    /\ jobs[k].queue \in worker_queues[w]
    /\ jobs[k].status = "queued"
    /\ lock[k] = NULL
    /\ jobs[k].run_at <= wk[w].t
    /\ jobs[k].run_at < wk[w].snap.run_at
    /\ jobs[k].priority < wk[w].snap.priority

\* C20: run_at never decreases across retries.  Each time a Complete (RETRY) or a
\* RecoverExpired commit re-queues a job, the run_at it writes is >= the run_at the
\* row held immediately before the commit, whatever an admin update did to run_at
\* while the job was running.
C20_RunAtMonotone ==
  [][((\E w \in Workers : CompleteCommits(w)) \/ (\E x \in Sweepers : SweepCommits(x)))
       => \A j \in JobIds :
            (jobs'[j] # jobs[j] /\ jobs'[j].status = "queued")
              => jobs'[j].run_at >= jobs[j].run_at]_vars

\* C21: attempts counts every completed execution.  Each accepted Complete, with
\* success true as well as false, and each lease-expiry recovery increases attempts
\* by exactly one (a job that succeeds on its first execution ends with attempts =
\* 1).  The row is compared with the one the call loaded, no other transaction
\* having written it in between.
C21_AttemptsCountEveryExecution ==
  [][/\ \A w \in Workers :
          (CompleteCommits(w) /\ jobs[wk[w].job] = wk[w].snap)
            => jobs'[wk[w].job].attempts = jobs[wk[w].job].attempts + 1
     /\ \A x \in Sweepers :
          SweepCommits(x) =>
            \A j \in DOMAIN swp[x].snaps :
              jobs[j] = swp[x].snaps[j]
                => jobs'[j].attempts = jobs[j].attempts + 1]_vars

\* the admin request op is made for j in this step
AdminCalled(op, j) ==
  /\ adm.pc = "idle"
  /\ \/ adm'.pc = op /\ adm'.job = j
     \/ ret = NoRet /\ ret'.op = op /\ ret'.who = "admin" /\ ret'.job = j

\* the admin request op for j returns none in this step and changes no row
AdminRefused(op, j) ==
  /\ ret' = [op |-> op, who |-> "admin", job |-> j, val |-> "none", n |-> 0]
  /\ adm' = IdleAdmin
  /\ jobs' = jobs

\* the admin request op commits in this step on the row it loaded, which no other
\* transaction has written since
AdminCommits(op) ==
  /\ adm.pc = op
  /\ adm'.pc = "idle"
  /\ jobs[adm.job] = adm.snap

\* the admin request op returns the job j in this step
AdminReturnsJob(op, j) ==
  ret' = [op |-> op, who |-> "admin", job |-> j, val |-> j, n |-> 0]

\* C22: cancel on a job that is scheduled, queued or running sets status =
\* cancelled, clears lease_owner and lease_expires_at, changes nothing else and
\* returns the job; cancel on a job that is succeeded, failed, dead or cancelled
\* returns none and leaves every row unchanged.
C22_CancelByStatus ==
  [][/\ \A j \in JobIds :
          AdminCalled("cancel", j) =>
            IF jobs[j].status \in {"scheduled", "queued", "running"}
            THEN adm'.pc = "cancel" /\ adm'.snap = jobs[j] /\ jobs' = jobs
            ELSE AdminRefused("cancel", j)
     /\ AdminCommits("cancel") =>
          /\ adm.snap.status \in {"scheduled", "queued", "running"}
          /\ jobs'[adm.job] = [jobs[adm.job] EXCEPT !.status = "cancelled",
                                                    !.lease_owner = NULL,
                                                    !.lease_expires_at = NoTime]
          /\ OnlyRow(adm.job)
          /\ AdminReturnsJob("cancel", adm.job)]_vars

\* a cancel has returned the job it cancelled while a worker held it: cancelled,
\* lease cleared, the heartbeat of its claim still on the row
C22_Witness ==
  /\ ret.op = "cancel"
  /\ ret.val \in JobIds
  /\ jobs[ret.val].status = "cancelled"
  /\ jobs[ret.val].lease_owner = NULL
  /\ jobs[ret.val].lease_expires_at = NoTime
  /\ jobs[ret.val].heartbeat_at # NoTime

\* C23: retry on a job that is failed or dead sets status = queued, attempts = 0,
\* last_error = null, lease_owner = lease_expires_at = null and run_at = now, so
\* that the job is eligible again, and returns the job; retry on a job in any other
\* status, or on a missing job, returns none and leaves every row unchanged.
C23_RetryByStatus ==
  [][/\ \A j \in JobIds :
          AdminCalled("retry", j) =>
            IF jobs[j].status \in {"failed", "dead"}
            THEN adm'.pc = "retry" /\ adm'.snap = jobs[j] /\ jobs' = jobs
            ELSE AdminRefused("retry", j)
     /\ AdminCommits("retry") =>
          LET new == jobs'[adm.job] IN
            /\ adm.snap.status \in {"failed", "dead"}
            /\ new.status = "queued"
            /\ new.attempts = 0
            /\ new.last_error = NULL
            /\ new.lease_owner = NULL
            /\ new.lease_expires_at = NoTime
            /\ new.run_at = now
            /\ new.queue = jobs[adm.job].queue
            /\ new.priority = jobs[adm.job].priority
            /\ new.max_attempts = jobs[adm.job].max_attempts
            /\ \E w \in Workers : Runnable(new, worker_queues[w], now')
            /\ OnlyRow(adm.job)
            /\ AdminReturnsJob("retry", adm.job)]_vars

\* a retry has returned a job that was dead: queued again with attempts 0, no
\* error, and run_at at the time of the retry, later than its creation
C23_Witness ==
  /\ ret.op = "retry"
  /\ ret.val \in JobIds
  /\ jobs[ret.val].status = "queued"
  /\ jobs[ret.val].attempts = 0
  /\ jobs[ret.val].last_error = NULL
  /\ jobs[ret.val].run_at = now
  /\ jobs[ret.val].run_at > jobs[ret.val].created_at

\* what the claim says of the row created from the body inp at time t
CreatedAsClaimed(row, inp, t) ==
  /\ row.queue = inp.queue
  /\ row.priority = inp.priority
  /\ row.max_attempts = inp.max_attempts
  /\ row.attempts = 0
  /\ row.lease_owner = NULL
  /\ row.lease_expires_at = NoTime
  /\ IF inp.run_at = NoTime \/ inp.run_at <= t
     THEN row.status = "queued" /\ row.run_at <= t
     ELSE row.status = "scheduled" /\ row.run_at = inp.run_at /\ row.run_at > t

\* C24: create assigns the initial status from run_at.  A job created with no
\* run_at or run_at <= now starts queued and eligible at once; a job created with
\* run_at > now starts scheduled with that run_at; both with attempts = 0 and no
\* lease.  A scheduled row never becomes queued: the claim that selects it once
\* run_at <= now makes it running directly.
C24_CreateStatusFromRunAt ==
  [][\A j \in JobIds :
       /\ (jobs[j].status = "absent" /\ jobs'[j].status # "absent") =>
            /\ ret'.op = "create" /\ ret'.val = j
            /\ \E inp \in CreateInputs : CreatedAsClaimed(jobs'[j], inp, now)
            /\ jobs'[j].status = "queued" =>
                 \E w \in Workers : /\ jobs'[j].queue \in worker_queues[w]
                                    /\ jobs'[j].run_at <= now
       /\ jobs[j].status = "scheduled" => jobs'[j].status # "queued"
       /\ \A w \in Workers :
            (ClaimReturns(w) /\ wk[w].job = j /\ wk[w].snap.status = "scheduled") =>
              /\ jobs[j].status = "scheduled"
              /\ jobs'[j].status = "running"]_vars

\* a claim has selected a scheduled row whose run_at has been reached
C24_Witness ==
  \E w \in Workers :
    /\ wk[w].pc = "claim"
    /\ wk[w].snap.status = "scheduled"
    /\ wk[w].snap.run_at <= wk[w].t
    /\ wk[w].snap.run_at > wk[w].snap.created_at
    /\ jobs[wk[w].job].status = "scheduled"

\* worker w's Heartbeat flushes and commits in this step
HeartbeatCommits(w) == wk[w].pc = "heartbeat" /\ wk'[w].pc = "idle"

\* C28: Heartbeat returns true iff the job exists, is running and lease_owner is the
\* caller (a call that does not return false goes on to return true); when it
\* returns true it sets lease_expires_at = now + lease_seconds and heartbeat_at =
\* now, now being the time of the call, and changes no other field of the row and
\* no other row.  (The commit is compared with the row the call loaded, no
\* other transaction having written it since; writes in between are the subject of
\* C36.)
C28_HeartbeatExtendsLease ==
  [][\A w \in Workers :
       /\ \A j \in JobIds :
            Called("heartbeat", w, j) =>
              IF jobs[j].status = "running" /\ jobs[j].lease_owner = w
              THEN /\ wk'[w].pc = "heartbeat"
                   /\ wk'[w].t = now
                   /\ jobs' = jobs
              ELSE Refused("heartbeat", w, j)
       /\ (HeartbeatCommits(w) /\ jobs[wk[w].job] = wk[w].snap) =>
            LET j == wk[w].job IN
              /\ ret' = [op |-> "heartbeat", who |-> w, job |-> j, val |-> "true", n |-> 0]
              /\ jobs'[j] = [jobs[j] EXCEPT
                               !.lease_expires_at = wk[w].t + default_lease_seconds,
                               !.heartbeat_at = wk[w].t]
              /\ OnlyRow(j)]_vars

\* a Heartbeat has returned true at a time later than the claim: the lease runs
\* from the heartbeat, the row is still running for the caller
C28_Witness ==
  /\ ret.op = "heartbeat"
  /\ ret.val = "true"
  /\ jobs[ret.job].status = "running"
  /\ jobs[ret.job].lease_owner = ret.who
  /\ jobs[ret.job].heartbeat_at = now
  /\ jobs[ret.job].lease_expires_at = now + default_lease_seconds
  /\ jobs[ret.job].run_at < now

\* ------------------------------------------------- services/worker/main.py
\* The Worker processes: each runs Worker.run and calls the leasing service from
\* _claim_job and _complete_job, one transaction (SessionLocal.begin()) per call.
\* Not modelled: the except clauses of Worker.run (_claim_job and _complete_job
\* catch every Exception, JobExecutor.execute every Exception of the handler), the
\* statistics, the banners.

\* what a handler does when JobExecutor.execute runs the job
HandlerOutcomes == {"returns", "raises", "not_registered"}

\* an executor that reports every execution as a success
ExecutionResult_always_success(outcome) == <<TRUE, NULL>>

\* the ExecutionResult of each: (success, error_message)
ExecutionResult(outcome) ==
  IF outcome = "returns" THEN <<TRUE, NULL>>
  ELSE IF outcome = "raises" THEN <<FALSE, "boom">>
  ELSE <<FALSE, "Handler not registered">>

Running == {"top", "process", "claim", "execute", "complete", "poll", "sleep"}

\* a step of the loop of w alone
LoopStep(w, next) ==
  /\ loop' = [loop EXCEPT ![w] = next]
  /\ Silent
  /\ UNCHANGED <<jobs, lock, now, wk, adm, swp, budget, reclaimed, swept, claims>>

\* signal_handler: SIGINT or SIGTERM sets _shutdown_flag
signal_handler(w) ==
  /\ loop[w].pc \in Running
  /\ ~loop[w].shutdown
  /\ LoopStep(w, [loop[w] EXCEPT !.shutdown = TRUE])

\* a loop that does not test the flag: `while True`
run_without_flag_test(w) ==
  /\ loop[w].pc = "top"
  /\ LoopStep(w, [loop[w] EXCEPT !.pc = "process"])

\* Worker.run: the test of `while not _shutdown_flag`
run(w) ==
  /\ loop[w].pc = "top"
  /\ LoopStep(w, [loop[w] EXCEPT !.pc = IF loop[w].shutdown THEN "stopped" ELSE "process"])

\* Worker._process_one_job calls _claim_job, which opens its transaction
_process_one_job(w) ==
  /\ loop[w].pc = "process"
  /\ LoopStep(w, [loop[w] EXCEPT
                    !.pc = "claim", !.job = NULL, !.outcome = NULL, !.calls = 0,
                    !.after = IF loop[w].shutdown THEN Min(@ + 1, 2) ELSE @])

\* Worker._claim_job: LeasingService.claim_next_job as it is written
_claim_job(w) ==
  /\ loop[w].pc = "claim"
  /\ claim_next_job(w)

\* the claim transaction with the query JobRepository defines
_claim_job_query(w) ==
  /\ loop[w].pc = "claim"
  /\ find_next_runnable_job(w)

\* a failure that leaves behind what the transaction had flushed (no rollback)
store_error_without_rollback(w) ==
  /\ loop[w].pc \in {"claim", "complete"}
  /\ wk[w].pc \in {"claim", "complete"}
  /\ jobs' = [jobs EXCEPT ![wk[w].job].status =
                IF wk[w].pc = "claim" THEN "running" ELSE "queued"]
  /\ lock' = [j \in JobIds |-> IF lock[j] = w THEN NULL ELSE lock[j]]
  /\ WorkerReturn(w, wk[w].pc, wk[w].job, "raised")
  /\ UNCHANGED <<now, adm, swp, budget, reclaimed, swept, loop, claims>>

\* a statement or the commit of the open transaction of w fails: the exception
\* leaves `with SessionLocal.begin()`, which rolls back
store_error(w) ==
  /\ loop[w].pc \in {"claim", "complete"}
  /\ wk[w].pc \in {"claim", "complete"}
  /\ lock' = [j \in JobIds |-> IF lock[j] = w THEN NULL ELSE lock[j]]
  /\ WorkerReturn(w, wk[w].pc, wk[w].job, "raised")
  /\ UNCHANGED <<jobs, now, adm, swp, budget, reclaimed, swept, loop, claims>>

\* Worker._claim_job returns: the job, or None (no job, or an exception caught)
_claim_job_return(w) ==
  /\ loop[w].pc = "claim"
  /\ ret.who = w
  /\ ret.op \in ClaimOps
  /\ ret' = NoRet
  /\ loop' = [loop EXCEPT ![w] =
       IF ret.val \in JobIds
       THEN [@ EXCEPT !.pc = "execute", !.job = ret.val]
       ELSE [@ EXCEPT !.pc = "poll"]]
  /\ UNCHANGED <<jobs, lock, now, wk, adm, swp, budget, reclaimed, swept, claims>>

\* JobExecutor.execute: the handler is looked up and run; a missing handler and an
\* exception of the handler end in an ExecutionResult
execute(w) ==
  /\ loop[w].pc = "execute"
  /\ \E outcome \in HandlerOutcomes :
       LoopStep(w, [loop[w] EXCEPT !.pc = "complete", !.outcome = outcome,
                                   !.success = ExecutionResult(outcome)[1],
                                   !.error = ExecutionResult(outcome)[2]])

\* Worker._complete_job: LeasingService.complete_job with the result
_complete_job(w) ==
  /\ loop[w].pc = "complete"
  /\ complete_job_call(w, loop[w].job, loop[w].success, loop[w].error)

\* Worker._complete_job returns (whatever complete_job returned, an exception
\* caught): _process_one_job returns True
_complete_job_return(w) ==
  /\ loop[w].pc = "complete"
  /\ ret.who = w
  /\ ret.op = "complete"
  /\ ret' = NoRet
  /\ loop' = [loop EXCEPT ![w] =
       [@ EXCEPT !.pc = "top", !.job = NULL, !.outcome = NULL, !.success = FALSE,
                 !.error = NULL, !.calls = Min(@ + 1, 2)]]
  /\ UNCHANGED <<jobs, lock, now, wk, adm, swp, budget, reclaimed, swept, claims>>

\* Worker.run: `if not job_processed and not _shutdown_flag`
poll(w) ==
  /\ loop[w].pc = "poll"
  /\ LoopStep(w, [loop[w] EXCEPT !.pc = IF loop[w].shutdown THEN "top" ELSE "sleep"])

\* Worker._sleep_with_interrupt_check ends: the flag is set, or the time is over
_sleep_with_interrupt_check(w) ==
  /\ loop[w].pc = "sleep"
  /\ LoopStep(w, [loop[w] EXCEPT !.pc = "top"])

\* the process of w dies (SIGKILL, host lost): the database rolls back its open
\* transaction, what a call returned is lost
kill(w) ==
  /\ loop[w].pc \in Running
  /\ loop' = [loop EXCEPT ![w] = [@ EXCEPT !.pc = "killed"]]
  /\ wk' = [wk EXCEPT ![w] = IdleWorker]
  /\ lock' = [j \in JobIds |-> IF lock[j] = w THEN NULL ELSE lock[j]]
  /\ ret' = IF ret.who = w THEN NoRet ELSE ret
  /\ UNCHANGED <<jobs, now, adm, swp, budget, reclaimed, swept, claims>>

\* what the admin and the sweeps were returned is taken
TakenByClient ==
  /\ ret.who \notin Workers
  /\ Taken

NextWorker ==
  \/ TakenByClient
  \/ Tick
  \/ create_job
  \/ \E w \in Workers : signal_handler(w)
  \/ \E w \in Workers : run(w)
  \/ \E w \in Workers : _process_one_job(w)
  \/ \E w \in Workers : _claim_job(w)
  \/ \E w \in Workers : _claim_job_query(w)
  \/ \E w \in Workers : set_running_commit(w)
  \/ \E w \in Workers : store_error(w)
  \/ \E w \in Workers : _claim_job_return(w)
  \/ \E w \in Workers : execute(w)
  \/ \E w \in Workers : _complete_job(w)
  \/ \E w \in Workers : complete_job_finish(w)
  \/ \E w \in Workers : _complete_job_return(w)
  \/ \E w \in Workers : poll(w)
  \/ \E w \in Workers : _sleep_with_interrupt_check(w)

InitWorker ==
  /\ jobs = [j \in JobIds |-> AbsentRow]
  /\ lock = [j \in JobIds |-> NULL]
  /\ now = 0
  /\ wk = [w \in Workers |-> IdleWorker]
  /\ adm = IdleAdmin
  /\ swp = [x \in Sweepers |-> IdleSweeper]
  /\ swept = NoTime
  /\ ret = NoRet
  /\ budget = Unmetered
  /\ reclaimed = {}
  /\ \E v \in Workers :
       loop = [w \in Workers |-> IF w = v THEN [OwnIds[w] EXCEPT !.pc = "top"]
                                          ELSE OwnIds[w]]
  /\ claims = [j \in JobIds |-> NoClaim]

\* the steps of the process of w: its loop and the transactions it has open
LoopOf(w) ==
  \/ run(w)
  \/ _process_one_job(w)
  \/ _claim_job(w)
  \/ _claim_job_query(w)
  \/ set_running_commit(w)
  \/ _claim_job_return(w)
  \/ execute(w)
  \/ _complete_job(w)
  \/ complete_job_finish(w)
  \/ _complete_job_return(w)
  \/ poll(w)
  \/ _sleep_with_interrupt_check(w)

\* A process that is not killed keeps running, the database answers, and a handler
\* returns or raises in the end; a step that waits (for a connection, for a row
\* lock) is taken once what it waits for has come.
FairWorker ==
  /\ \A w \in Workers : SF_vars(LoopOf(w))
  /\ WF_vars(TakenByClient)

SpecWorker == InitWorker /\ [][NextWorker]_vars /\ FairWorker

\* A Worker process that may die at any point, and the recovery sweep.
NextRecovery ==
  \/ TakenByClient
  \/ Tick
  \/ create_job
  \/ \E w \in Workers : kill(w)
  \/ \E w \in Workers : run(w)
  \/ \E w \in Workers : _process_one_job(w)
  \/ \E w \in Workers : _claim_job(w)
  \/ \E w \in Workers : _claim_job_query(w)
  \/ \E w \in Workers : set_running_commit(w)
  \/ \E w \in Workers : _claim_job_return(w)
  \/ \E w \in Workers : execute(w)
  \/ \E w \in Workers : _complete_job(w)
  \/ \E w \in Workers : complete_job_finish(w)
  \/ \E w \in Workers : _complete_job_return(w)
  \/ \E w \in Workers : poll(w)
  \/ \E w \in Workers : _sleep_with_interrupt_check(w)
  \/ recover_fetch("s1")
  \/ recover_finish("s1")

\* The recovery sweep is run again and again.
FairRecovery ==
  /\ FairWorker
  /\ SF_vars(recover_fetch("s1"))
  /\ SF_vars(recover_finish("s1"))

SpecRecovery == InitWorker /\ [][NextRecovery]_vars /\ FairRecovery

\* the process of w calls the leasing service in this step
StartsCall(w) == wk[w].pc = "idle" /\ (wk'[w].pc # "idle" \/ (ret = NoRet /\ ret'.who = w))

\* C25: after the shutdown flag is set a worker starts at most one more claim; the
\* job in flight is executed to the end and its Complete is made with the
\* executor's result; once the flag has been seen at the top of the loop the
\* worker makes no call and stays stopped; and the loop terminates.
C25_ShutdownAfterCurrentJob ==
  /\ [](\A w \in Workers : loop[w].after <= 1)
  /\ [][\A w \in Workers :
          /\ (loop[w].pc = "top" /\ loop[w].shutdown /\ loop'[w] # loop[w])
               => loop'[w].pc = "stopped"
          /\ loop[w].pc = "stopped" => (loop'[w] = loop[w] /\ ~StartsCall(w))
          /\ (loop[w].shutdown /\ loop[w].pc = "execute" /\ loop'[w] # loop[w])
               => loop'[w].pc = "complete"
          /\ (loop[w].pc = "complete" /\ StartsCall(w)) =>
               \/ /\ wk'[w].pc = "complete"
                  /\ wk'[w].job = loop[w].job
                  /\ wk'[w].success = (loop[w].outcome = "returns")
               \/ /\ ret'.op = "complete"
                  /\ ret'.job = loop[w].job]_vars
  /\ \A w \in Workers : (loop[w].shutdown ~> loop[w].pc = "stopped")

\* a worker has stopped after the one claim it started with the flag set, and
\* that claim got a job
C25_Witness ==
  \E w \in Workers :
    /\ loop[w].pc = "stopped"
    /\ loop[w].after = 1
    /\ loop[w].calls = 1

\* the process that holds the lease of the row has died
HolderKilled(job) ==
  /\ job.status = "running"
  /\ job.lease_owner \in Workers
  /\ loop[job.lease_owner].pc = "killed"

\* a running row whose lease has expired eventually leaves running
ExpiredLeavesRunning ==
  \A j \in JobIds :
    (jobs[j].status = "running" /\ jobs[j].lease_expires_at < now)
      ~> (jobs[j].status # "running")

\* C26: a job is not lost when its worker dies.  A running row whose lease has
\* expired (time has passed lease_expires_at) eventually leaves running, the
\* recovery sweep being run again and again; and the row of a worker that died
\* after its claim, which never calls Heartbeat or Complete, leaves running as
\* queued with attempts incremented by one, or as dead.
C26_DeadWorkerJobRecovered ==
  /\ ExpiredLeavesRunning
  /\ [][\A j \in JobIds :
          (HolderKilled(jobs[j]) /\ jobs'[j] # jobs[j]) =>
            \/ jobs'[j].status = "dead"
            \/ /\ jobs'[j].status = "queued"
               /\ jobs'[j].attempts = jobs[j].attempts + 1]_vars

\* a job is eligible for worker w now: queued or scheduled, due, in one of the
\* worker's queues
EligibleFor(w) ==
  \E j \in JobIds : Runnable(jobs[j], worker_queues[w], now)

\* the store failed inside a transaction of w's loop
StoreFailed(w) ==
  ret.who = w /\ ret.op \in {"claim", "complete"} /\ ret.val = "raised"

\* w's Complete call for the job it claimed and executed has returned
CompletedClaimed(w) ==
  /\ loop[w].pc = "complete"
  /\ loop[w].job \in JobIds
  /\ loop[w].outcome \in HandlerOutcomes
  /\ ret.who = w /\ ret.op = "complete" /\ ret.job = loop[w].job

\* C27: a running worker makes progress on eligible work.  When a job is eligible
\* for a worker whose loop is iterating with no shutdown requested, the worker
\* eventually has claimed a job, executed it and called Complete for it, in that
\* order (unless shutdown is requested or the store fails meanwhile).
C27_WorkerMakesProgress ==
  \A w \in Workers :
    (loop[w].pc \in Running /\ ~loop[w].shutdown /\ EligibleFor(w))
      ~> (CompletedClaimed(w) \/ loop[w].shutdown \/ StoreFailed(w))

\* the handler of w's job raised, or its name is not in the registry
HandlerFailed(w) == loop[w].outcome \in {"raises", "not_registered"}

\* C29: a handler that raises and a handler name missing from the registry both
\* come back from the executor as a failure result, the loop going on to its
\* Complete step (no exception reaches the loop); the worker then calls Complete
\* for the claimed job with success = false, once, before the next iteration; and
\* the commit of that call counts one attempt and leaves the row queued when
\* retries remain, dead otherwise (a transaction the store fails in commits
\* nothing).
C29_HandlerFailureCostsOneAttempt ==
  [][\A w \in Workers :
       /\ (loop[w].pc = "execute" /\ loop'[w].pc # "execute")
            => /\ loop'[w].pc \in {"complete", "killed"}
               /\ loop'[w].pc = "complete" =>
                    /\ loop'[w].job = loop[w].job
                    /\ HandlerFailed(w)' => (~loop'[w].success /\ loop'[w].error # NULL)
       /\ (loop[w].pc = "complete" /\ HandlerFailed(w) /\ StartsCall(w))
            => \/ /\ wk'[w].pc = "complete"
                  /\ wk'[w].job = loop[w].job
                  /\ ~wk'[w].success
               \/ /\ ret'.op = "complete"
                  /\ ret'.job = loop[w].job
       /\ (loop[w].pc = "complete" /\ HandlerFailed(w) /\ loop'[w].pc = "top")
            => /\ loop[w].calls = 0
               /\ loop'[w].calls = 1
               /\ ret.who = w /\ ret.op = "complete" /\ ret.job = loop[w].job
       /\ (loop[w].pc = "complete" /\ HandlerFailed(w) /\ CompleteCommits(w)
           /\ ret'.who = w /\ ret'.val # "raised"
           /\ LeasedTo(jobs[wk[w].job], w))
            => LET old == jobs[wk[w].job]
                   new == jobs'[wk[w].job]
               IN /\ new.attempts = old.attempts + 1
                  /\ new.last_error = loop[w].error
                  /\ new.status =
                       IF old.attempts + 1 < old.max_attempts THEN "queued" ELSE "dead"
                  /\ OnlyRow(wk[w].job)
                  /\ CompleteTrue(w, wk[w].job)]_vars

\* a job whose handler is not registered has been completed as a failure, and the
\* worker's Complete for a job whose handler raised has just returned true
C29_Witness ==
  \E w \in Workers, k \in JobIds :
    /\ CompletedClaimed(w)
    /\ loop[w].outcome = "raises"
    /\ ret.val = "true"
    /\ jobs[loop[w].job].attempts = 1
    /\ jobs[loop[w].job].last_error = "boom"
    /\ k # loop[w].job
    /\ jobs[k].last_error = "Handler not registered"
    /\ jobs[k].attempts >= 1

\* this step is the failure of the store inside a transaction of w's loop
StoreFails(w) == ~StoreFailed(w) /\ StoreFailed(w)'

\* C30: when the store fails inside the ClaimNext or Complete transaction of a
\* worker, nothing of the transaction is committed: no row changes, the row of the
\* call is as the call loaded it, and its lock is released; the loop takes the
\* failure as no job (claim) or as the end of the job (complete), and goes on to
\* the top of its next iteration instead of ending.
C30_StoreFailureRollsBack ==
  /\ [][\A w \in Workers :
          /\ StoreFails(w)
               => /\ jobs' = jobs
                  /\ jobs'[wk[w].job] = wk[w].snap
                  /\ \A j \in JobIds : lock'[j] # w
                  /\ wk'[w] = IdleWorker
                  /\ loop'[w] = loop[w]
          /\ (StoreFailed(w) /\ loop'[w].pc # loop[w].pc)
               => /\ jobs' = jobs
                  /\ loop'[w].pc = (IF ret.op = "claim" THEN "poll" ELSE "top")
                  /\ ~StartsCall(w)]_vars
  /\ \A w \in Workers : StoreFailed(w) ~> (loop[w].pc = "top")

\* the store has failed in the Complete transaction of w, for the job w had
\* claimed and executed: the row is still running under w's lease, not locked
C30_Witness ==
  \E w \in Workers :
    /\ StoreFailed(w)
    /\ ret.op = "complete"
    /\ loop[w].pc = "complete"
    /\ loop[w].outcome = "returns"
    /\ LeasedTo(jobs[loop[w].job], w)
    /\ jobs[loop[w].job].attempts = 0
    /\ lock[loop[w].job] = NULL

\* C31: no committed row has status failed, whatever claim, heartbeat, complete
\* and recovery transactions have committed: the failed status that the RETRY
\* branch of Complete writes is replaced by queued before its commit.  So no
\* transaction loads a failed row either: not a worker's call, not an admin call
\* (cancel, retry), not a sweep.
C31_FailedNeverCommitted ==
  /\ \A j \in JobIds : jobs[j].status # "failed"
  /\ \A w \in Workers : wk[w].snap.status # "failed"
  /\ adm.snap.status # "failed"
  /\ \A x \in Sweepers : \A j \in DOMAIN swp[x].snaps : swp[x].snaps[j].status # "failed"

\* the RETRY branch of a Complete has committed: the job is queued again with the
\* error of the failure stored and the attempt counted
C31_Witness ==
  /\ ret.op = "complete"
  /\ ret.who \in Workers
  /\ ret.val = "true"
  /\ jobs[ret.job].status = "queued"
  /\ jobs[ret.job].last_error \in {"boom", "Unknown error"}
  /\ jobs[ret.job].attempts = 1
  /\ jobs[ret.job].max_attempts = 2
  /\ jobs[ret.job].lease_owner = NULL

\* One worker, one recovery sweep and the admin update of a job's fields, with
\* calls enough for a job to fail twice and be updated.
MaxUpdateCalls == 6

InitUpdate ==
  /\ jobs = [j \in JobIds |-> AbsentRow]
  /\ lock = [j \in JobIds |-> NULL]
  /\ now = 0
  /\ wk = [w \in Workers |-> IdleWorker]
  /\ adm = IdleAdmin
  /\ swp = [x \in Sweepers |-> IdleSweeper]
  /\ swept = NoTime
  /\ ret = NoRet
  /\ budget = MaxUpdateCalls
  /\ reclaimed = {}
  /\ loop = OwnIds
  /\ claims = [j \in JobIds |-> NoClaim]

NextUpdate ==
  \/ Taken
  \/ Tick
  \/ create_job
  \/ update_job_fetch
  \/ update_job_finish
  \/ claim_next_job("w1")
  \/ find_next_runnable_job("w1")
  \/ set_running_commit("w1")
  \/ complete_job_fetch("w1")
  \/ complete_job_finish("w1")
  \/ recover_fetch("s1")
  \/ recover_finish("s1")

SpecUpdate == InitUpdate /\ [][NextUpdate]_vars

\* C32: after every committed transaction each job has attempts <= max_attempts,
\* an admin update of max_attempts on a job with attempts > 0, and a Complete or a
\* recovery sweep that commits after such an update, included.
C32_AttemptsWithinMaxUnderUpdate ==
  \A j \in JobIds :
    jobs[j].status # "absent" => jobs[j].max_attempts >= jobs[j].attempts

\* C33: decide_completion_outcome, on every job row the program produces and both
\* values of success, is SUCCEEDED iff success, DEAD iff not success and
\* attempts + 1 >= max_attempts, RETRY iff not success and
\* attempts + 1 < max_attempts; the attempts it reads are those before the
\* increment, so a failed Complete of the lease holder commits dead exactly when
\* the incremented attempts reach max_attempts.
C33_DecideCompletion ==
  /\ [](\A j \in Rows, success \in BOOLEAN :
          LET outcome == decide_completion_outcome(jobs[j], success) IN
            /\ outcome \in {"succeeded", "dead", "retry"}
            /\ (outcome = "succeeded") <=> success
            /\ (outcome = "dead") <=>
                 (~success /\ jobs[j].attempts + 1 >= jobs[j].max_attempts)
            /\ (outcome = "retry") <=>
                 (~success /\ jobs[j].attempts + 1 < jobs[j].max_attempts))
  /\ [][\A w \in Workers :
          (CompleteCommits(w) /\ ~wk[w].success /\ jobs[wk[w].job] = wk[w].snap)
            => LET new == jobs'[wk[w].job] IN
                 /\ new.attempts = jobs[wk[w].job].attempts + 1
                 /\ (new.status = "dead") <=> (new.attempts = new.max_attempts)
                 /\ (new.status = "queued") <=> (new.attempts < new.max_attempts)]_vars

\* a job has failed once with retries left and has failed again on its last
\* attempt: dead with attempts = max_attempts = 2
C33_Witness ==
  /\ ret.op = "complete"
  /\ ret.who \in Workers
  /\ ret.val = "true"
  /\ jobs[ret.job].status = "dead"
  /\ jobs[ret.job].attempts = 2
  /\ jobs[ret.job].max_attempts = 2

\* core/leasing.py can_claim_job(job, now); a job that is None is an absent row
can_claim_job(job, t) ==
  IF job.status = "absent" THEN FALSE
  ELSE IF job.status \notin {"queued", "failed"} THEN FALSE
  ELSE IF job.run_at > t THEN FALSE
  ELSE TRUE

\* C34: can_claim_job(job, now) is true iff the job exists, is queued or
\* scheduled and has run_at <= now; so for every job and every now it agrees with
\* the WHERE clause of the claim query, the queue filter apart.
C34_CanClaimAgreesWithQuery ==
  \A j \in JobIds :
    /\ can_claim_job(jobs[j], now) <=>
         /\ jobs[j].status # "absent"
         /\ jobs[j].status \in {"queued", "scheduled"}
         /\ jobs[j].run_at <= now
    /\ can_claim_job(jobs[j], now) <=> Runnable(jobs[j], {jobs[j].queue}, now)

\* A job that has already failed many times: the table holds one job with
\* max_attempts 100 (the most JobCreate accepts), which failed a times before the
\* clock's origin and is queued again and due, for every a up to MaxAttemptsInput;
\* one worker and one recovery sweep act on it.
MaxAttemptsInput == 11

InitDelay ==
  /\ \E a \in 0 .. MaxAttemptsInput :
       jobs = [j \in JobIds |->
                 IF j = "j1"
                 THEN [queue |-> "default", priority |-> 0, max_attempts |-> 100,
                       run_at |-> 0, status |-> "queued", attempts |-> a,
                       lease_owner |-> NULL, lease_expires_at |-> NoTime,
                       heartbeat_at |-> NoTime,
                       last_error |-> IF a = 0 THEN NULL ELSE "boom",
                       created_at |-> 0]
                 ELSE AbsentRow]
  /\ lock = [j \in JobIds |-> NULL]
  /\ now = 0
  /\ wk = [w \in Workers |-> IdleWorker]
  /\ adm = IdleAdmin
  /\ swp = [x \in Sweepers |-> IdleSweeper]
  /\ swept = NoTime
  /\ ret = NoRet
  /\ budget = MaxCoreCalls
  /\ reclaimed = {}
  /\ loop = OwnIds
  /\ claims = [j \in JobIds |-> NoClaim]

NextDelay ==
  \/ Taken
  \/ Tick
  \/ find_next_runnable_job("w1")
  \/ set_running_commit("w1")
  \/ complete_job_fetch("w1")
  \/ complete_job_finish("w1")
  \/ recover_fetch("s1")
  \/ recover_finish("s1")

SpecDelay == InitDelay /\ [][NextDelay]_vars

\* C35: calculate_retry_delay(attempts) is min(5 * 2^attempts, 3600) seconds for
\* every attempts from 0 up to those of any job: positive, at most 3600, and not
\* below the delay of attempts - 1; so compute_next_run_at(now, attempts) is later
\* than now, and so is the run_at that a retry commits.
C35_RetryDelay ==
  /\ [](\A j \in Rows : \A a \in 0 .. jobs[j].attempts :
          LET d == calculate_retry_delay(a) IN
            /\ d = (IF 5 * (2 ^ a) <= 3600 THEN 5 * (2 ^ a) ELSE 3600)
            /\ d > 0
            /\ d <= 3600
            /\ a > 0 => calculate_retry_delay(a - 1) <= d
            /\ compute_next_run_at(now, a) = now + d
            /\ compute_next_run_at(now, a) > now)
  /\ [][\A w \in Workers :
          (CompleteCommits(w) /\ jobs[wk[w].job] = wk[w].snap
           /\ jobs'[wk[w].job].status = "queued")
            => /\ jobs'[wk[w].job].run_at =
                    now + calculate_retry_delay(jobs'[wk[w].job].attempts)
               /\ jobs'[wk[w].job].run_at > now
               /\ jobs'[wk[w].job].run_at <= now + 3600]_vars

\* a job that fails for the eleventh time or later is queued again an hour ahead:
\* the cap of the delay is in force
C35_Witness ==
  /\ ret.op = "complete"
  /\ ret.val = "true"
  /\ jobs[ret.job].status = "queued"
  /\ jobs[ret.job].attempts >= 11
  /\ jobs[ret.job].run_at = now + 3600

\* C36: of the transitions that compete for one claim of a job, at most one takes
\* effect.  A Complete that commits after a sweep or an admin cancel has committed
\* a transition on the row it fetched (the row is no longer running for the
\* caller) leaves the row as that transition committed it, and so does a sweep
\* that commits after a Complete, a cancel or another sweep took the row out of
\* running: a cancelled or re-queued job is not turned into succeeded, a succeeded
\* job is not queued again.
C36_OneTransitionPerClaim ==
  [][/\ \A w \in Workers :
          (CompleteCommits(w) /\ ~LeasedTo(jobs[wk[w].job], w))
            => jobs'[wk[w].job] = jobs[wk[w].job]
     /\ \A x \in Sweepers :
          SweepCommits(x) =>
            \A j \in DOMAIN swp[x].snaps :
              jobs[j].status # "running" => jobs'[j] = jobs[j]]_vars

\* C37: retries are bounded.  With max_attempts not edited, a job is made running
\* at most max_attempts times between its creation (or its last admin retry) and
\* its reaching a terminal state; a dead job, all of whose executions failed or
\* expired, was claimed exactly max_attempts times, and it is never claimed
\* again.
C37_RetriesBounded ==
  /\ [](\A j \in Rows :
          /\ claims[j].n <= jobs[j].max_attempts
          /\ jobs[j].status = "dead" => claims[j].n = jobs[j].max_attempts)
  /\ [][\A j \in Rows :
          jobs[j].status = "dead" =>
            (jobs'[j].status # "running" /\ claims'[j] = claims[j])]_vars

\* the row is running for w with a lease whose expiry has passed at time t
HeldPastExpiry(job, w, t) == LeasedTo(job, w) /\ job.lease_expires_at < t

\* C38: the expiry of a lease alone does not revoke it.  While the row is running
\* with lease_owner = W, Heartbeat and Complete called by W are accepted although
\* lease_expires_at < now, and on the row they loaded they commit and return
\* true: the Complete ends the job, the Heartbeat makes the lease run from the
\* time of the call, so that the row is not expired any more and a sweep that
\* starts then does not load it.
C38_ExpiryAloneKeepsOwnership ==
  [][/\ \A w \in Workers, j \in JobIds :
          /\ (Called("heartbeat", w, j) /\ HeldPastExpiry(jobs[j], w, now))
               => (wk'[w].pc = "heartbeat" /\ wk'[w].job = j /\ ret' = NoRet)
          /\ (Called("complete", w, j) /\ HeldPastExpiry(jobs[j], w, now))
               => (wk'[w].pc = "complete" /\ wk'[w].job = j /\ ret' = NoRet)
     /\ \A w \in Workers :
          /\ (HeartbeatCommits(w) /\ jobs[wk[w].job] = wk[w].snap
              /\ HeldPastExpiry(wk[w].snap, w, wk[w].t))
               => /\ ret'.val = "true"
                  /\ LeasedTo(jobs'[wk[w].job], w)
                  /\ jobs'[wk[w].job].lease_expires_at = wk[w].t + default_lease_seconds
                  /\ ~Expired(jobs'[wk[w].job], wk[w].t)
          /\ (CompleteCommits(w) /\ jobs[wk[w].job] = wk[w].snap
              /\ HeldPastExpiry(wk[w].snap, w, now))
               => /\ ret'.val = "true"
                  /\ jobs'[wk[w].job].status \in {"succeeded", "queued", "dead"}
                  /\ jobs'[wk[w].job].lease_owner = NULL
     /\ \A x \in Sweepers :
          (SweepReads(x) /\ swp'[x].pc = "recover")
            => \A j \in DOMAIN swp'[x].snaps : Expired(jobs[j], now)]_vars

\* a Heartbeat and a Complete are both under way on rows whose lease had expired
\* when they were called
C38_Witness ==
  \E v, w \in Workers :
    /\ wk[v].pc = "heartbeat"
    /\ HeldPastExpiry(wk[v].snap, v, wk[v].t)
    /\ wk[w].pc = "complete"
    /\ HeldPastExpiry(wk[w].snap, w, wk[v].t)

\* Settings.worker_id: the identifier every worker process started without a
\* WORKER_ID of its own is given
default_worker_id == "worker-default"

\* two worker processes started with the default settings: main() hands
\* settings.worker_id to each Worker
InitSharedId ==
  /\ jobs = [j \in JobIds |-> AbsentRow]
  /\ lock = [j \in JobIds |-> NULL]
  /\ now = 0
  /\ wk = [w \in Workers |-> IdleWorker]
  /\ adm = IdleAdmin
  /\ swp = [x \in Sweepers |-> IdleSweeper]
  /\ swept = NoTime
  /\ ret = NoRet
  /\ budget = MaxCoreCalls
  /\ reclaimed = {}
  /\ loop = [w \in Workers |-> [NoProcess EXCEPT !.worker_id = default_worker_id]]
  /\ claims = [j \in JobIds |-> NoClaim]

SpecSharedId == InitSharedId /\ [][NextCore]_vars

\* process w's heartbeat or complete_job on job j passes the ownership test
AcceptedFor(w, j) ==
  /\ wk[w].pc = "idle"
  /\ wk'[w].pc \in {"heartbeat", "complete"}
  /\ wk'[w].job = j

\* process w's heartbeat or complete_job on job j commits and returns True
TakesEffectFor(w, j) ==
  /\ wk[w].pc \in {"heartbeat", "complete"}
  /\ wk[w].job = j
  /\ wk'[w].pc = "idle"
  /\ ret'.who = w
  /\ ret'.val = "true"

\* C39: a Complete or Heartbeat made for an earlier claim of a job is never
\* accepted against a later claim of it: whenever a process's heartbeat or
\* complete_job on job j passes the ownership test, and whenever it commits and
\* returns True, the latest claim of j is the one that process made, also when
\* the worker processes run with the same worker_id
C39_EarlierClaimNeverAccepted ==
  [][\A w \in Workers, j \in JobIds :
       w \in claims[j].was =>
         /\ AcceptedFor(w, j) => claims[j].by = w
         /\ TakesEffectFor(w, j) => claims[j].by = w]_vars

\* the acceptance half of C39 alone
AcceptedOnlyForLatestClaim ==
  [][\A w \in Workers, j \in JobIds :
       (w \in claims[j].was /\ AcceptedFor(w, j)) => claims[j].by = w]_vars

\* worker w's claim of job j commits
ClaimCommits(w, j) ==
  /\ wk[w].pc = "claim"
  /\ wk[w].job = j
  /\ ret'.op = "claim"
  /\ ret'.who = w
  /\ ret'.val = j

\* job j, running for some worker, is taken out of running by this step
HoldEnds(j) == jobs[j].status = "running" /\ jobs'[j].status # "running"

\* C40: a job held by a worker is claimed by another only after the hold has
\* ended: a claim commits only on a row that is not running, and a running row
\* leaves running only by its holder's Complete committing True or by a recovery
\* sweep whose time is strictly later than the row's lease_expires_at; a row
\* whose lease is unexpired is never moved out of running by a sweep
C40_ClaimedOnlyAfterHoldEnded ==
  [][\A j \in JobIds :
       /\ \A w \in Workers : ClaimCommits(w, j) => jobs[j].status # "running"
       /\ HoldEnds(j) =>
            \/ \E w \in Workers :
                 /\ CompleteCommits(w)
                 /\ wk[w].job = j
                 /\ LeasedTo(jobs[j], w)
                 /\ ret'.who = w
                 /\ ret'.val = "true"
            \/ \E x \in Sweepers :
                 /\ SweepCommits(x)
                 /\ j \in DOMAIN swp[x].snaps
                 /\ jobs[j].lease_expires_at < swp[x].t
       /\ \A x \in Sweepers :
            (SweepCommits(x) /\ jobs[j].status = "running"
               /\ jobs[j].lease_expires_at >= now) => jobs'[j].status = "running"]_vars

\* the first half of C40 alone: claims commit only on rows that are not running
ClaimTakesOnlyFreeRow ==
  [][\A j \in JobIds, w \in Workers :
       ClaimCommits(w, j) => jobs[j].status # "running"]_vars
====
